---------------------------- MODULE Spec2Model ----------------------------
(***************************************************************************)
(* A model of the passval password validator (package passval):           *)
(* dictionary, leet-speak normalisation, entropy scoring, the five         *)
(* penalty detectors, the policy validator and the candidate generator.    *)
(*                                                                         *)
(* Conventions                                                             *)
(*   - a character is its Unicode code point (97 is 'a'); a Go string is   *)
(*     modelled by the sequence of its code points, and Bytes(s) is its    *)
(*     UTF-8 encoding, which is what len(s) and s[i] see in Go;            *)
(*   - a float64 penalty factor is written in thousandths (0.15 is 150);   *)
(*   - entropy bits are written in millionths of a bit.                    *)
(***************************************************************************)
EXTENDS Integers, Sequences, FiniteSets, TLC

(***************************************************************************)
(* Bounds of the model.                                                    *)
(***************************************************************************)
\* longest password over MixedAlphabet, in characters
MaxMixedLen == 2
\* longest password over DigitAlphabet, in characters
MaxDigitLen == 6
\* largest maximum length the generator runs are constructed with
MaxGenLen == 3
\* largest minimum length the constructor runs pass
MaxArgLen == 3
\* the longest password of digits the detectors are called on directly
MaxDetectLen == 5
\* the longest string the leet functions are called on
MaxLeetLen == 4
\* the most lines of a dictionary text loadDictionary is called on
MaxDictLines == 2

(***************************************************************************)
(* Generic helpers on sequences and sets.                                  *)
(***************************************************************************)
Range(s) == { s[i] : i \in 1..Len(s) }

SeqsUpTo(S, n) == UNION { [1..k -> S] : k \in 0..n }

\* s back to front
Reverse(s) == [i \in 1..Len(s) |-> s[Len(s) + 1 - i]]

Min2(a, b) == IF a < b THEN a ELSE b

Max2(a, b) == IF a > b THEN a ELSE b

\* the largest element of a non-empty set of integers
SetMax(S) == CHOOSE m \in S : \A j \in S : j <= m

\* strings.Contains on byte strings
Contains(s, sub) ==
    \E i \in 0..(Len(s) - Len(sub)) : \A k \in 1..Len(sub) : s[i + k] = sub[k]

(***************************************************************************)
(* Characters: Go's unicode package on the code points the model uses      *)
(* (ASCII, U+00C9 'É', U+00E9 'é', U+4E2D, a letter without case).         *)
(***************************************************************************)
IsLower(r) == r \in 97..122 \/ r = 233

IsUpper(r) == r \in 65..90 \/ r = 201

IsDigit(r) == r \in 48..57

\* unicode.IsPunct(r) || unicode.IsSymbol(r): categories P and S
IsPunctOrSymbol(r) == r \in (33..47) \cup (58..64) \cup (91..96) \cup (123..126)

\* unicode.IsSpace on the modelled code points (strings.TrimSpace)
IsSpace(r) == r \in {9, 10, 11, 12, 13, 32}

\* unicode.ToLower
ToLowerRune(r) == IF r \in 65..90 \/ r = 201 THEN r + 32 ELSE r

\* strings.ToLower
ToLower(s) == [i \in 1..Len(s) |-> ToLowerRune(s[i])]

\* the UTF-8 encoding of one code point below U+10000
Utf8(r) ==
    IF r < 128 THEN <<r>>
    ELSE IF r < 2048 THEN <<192 + (r \div 64), 128 + (r % 64)>>
    ELSE <<224 + (r \div 4096), 128 + ((r \div 64) % 64), 128 + (r % 64)>>

\* the bytes of a Go string: len(s) is Len(Bytes(s)), s[i] is Bytes(s)[i+1]
RECURSIVE Bytes(_)
Bytes(s) == IF s = <<>> THEN <<>> ELSE Utf8(Head(s)) \o Bytes(Tail(s))

\* strings.TrimSpace
RECURSIVE TrimLeft(_)
TrimLeft(s) == IF s # <<>> /\ IsSpace(Head(s)) THEN TrimLeft(Tail(s)) ELSE s

RECURSIVE TrimRight(_)
TrimRight(s) ==
    IF s # <<>> /\ IsSpace(s[Len(s)]) THEN TrimRight(SubSeq(s, 1, Len(s) - 1)) ELSE s

TrimSpace(s) == TrimRight(TrimLeft(s))

(***************************************************************************)
(* dictionary.go                                                           *)
(***************************************************************************)
\* loadDictionary; data is given as its lines (strings.Split(data, "\n"))
RECURSIVE LoadWords(_)
LoadWords(lines) ==
    IF lines = <<>> THEN <<>>
    ELSE LET word == TrimSpace(ToLower(Head(lines)))
         IN  IF word = <<>> THEN LoadWords(Tail(lines))
             ELSE <<word>> \o LoadWords(Tail(lines))

\* loadDictionary keeping the lines as they are but for their case
loadDictionaryNoTrim(lines) ==
    LET ws == SelectSeq([i \in 1..Len(lines) |-> ToLower(lines[i])], LAMBDA w : w # <<>>)
    IN  [set |-> Range(ws), words |-> ws]

loadDictionary(lines) ==
    LET ws == LoadWords(lines) IN [set |-> Range(ws), words |-> ws]

\* dictionary.contains
contains(d, word) == word \in d.set

\* The entries of the embedded data/common_passwords.txt that the tests and
\* the README table rely on: password, 123456, qwerty, aaaaaa.
commonPasswordsData ==
    << <<112, 97, 115, 115, 119, 111, 114, 100>>,
       <<49, 50, 51, 52, 53, 54>>,
       <<113, 119, 101, 114, 116, 121>>,
       <<97, 97, 97, 97, 97, 97>> >>

\* globalDict, set by init()
globalDict == loadDictionary(commonPasswordsData)

(***************************************************************************)
(* leet.go                                                                 *)
(***************************************************************************)
\* leetMap: the letters each leet character may stand for, first one first
leetMap ==
    (64 :> <<97>>) @@ (52 :> <<97>>) @@ (56 :> <<98>>) @@ (40 :> <<99>>) @@
    (123 :> <<99>>) @@ (51 :> <<101>>) @@ (54 :> <<103>>) @@ (35 :> <<104>>) @@
    (33 :> <<105>>) @@ (49 :> <<105, 108>>) @@ (124 :> <<105, 108>>) @@
    (48 :> <<111>>) @@ (57 :> <<103, 113>>) @@ (53 :> <<115>>) @@
    (36 :> <<115>>) @@ (55 :> <<116>>) @@ (43 :> <<116>>) @@ (50 :> <<122>>) @@
    (37 :> <<120>>)

\* leetNormalize taking the last mapping of every mapped character
leetNormalizeLast(s) ==
    [i \in 1..Len(s) |->
        IF s[i] \in DOMAIN leetMap THEN leetMap[s[i]][Len(leetMap[s[i]])] ELSE s[i]]

\* leetNormalize: the first mapping of every mapped character
leetNormalize(s) ==
    [i \in 1..Len(s) |-> IF s[i] \in DOMAIN leetMap THEN leetMap[s[i]][1] ELSE s[i]]

\* the ambiguous positions of s (characters with more than one mapping), in order
RECURSIVE AmbiguousFrom(_, _)
AmbiguousFrom(s, i) ==
    IF i > Len(s) THEN <<>>
    ELSE IF s[i] \in DOMAIN leetMap /\ Len(leetMap[s[i]]) > 1
         THEN <<i>> \o AmbiguousFrom(s, i + 1)
         ELSE AmbiguousFrom(s, i + 1)

Ambiguities(s) == AmbiguousFrom(s, 1)

\* leetVariants going through every ambiguous position (no cap at two)
leetVariantsNoCap(s) ==
    LET primary == leetNormalize(s)
        amb     == Ambiguities(s)
        limit   == Len(amb)
        options(k) == leetMap[s[amb[k]]]
        combos  == { c \in [1..limit -> 1..2] : \A k \in 1..limit : c[k] <= Len(options(k)) }
        result(c) == [i \in 1..Len(s) |->
                        IF \E k \in 1..limit : amb[k] = i
                        THEN LET k == CHOOSE k \in 1..limit : amb[k] = i
                             IN  options(k)[c[k]]
                        ELSE primary[i]]
    IN  {primary} \cup (IF limit > 0 THEN { result(c) : c \in combos } ELSE {})

\* leetVariants: the set held by the variants map; the order in which the
\* returned slice lists it is the map's iteration order, which Go leaves
\* unspecified, so callers see the elements in any order.
leetVariants(s) ==
    LET primary == leetNormalize(s)
        amb     == Ambiguities(s)
        limit   == Min2(Len(amb), 2)
        options(k) == leetMap[s[amb[k]]]
        combos  == { c \in [1..limit -> 1..2] : \A k \in 1..limit : c[k] <= Len(options(k)) }
        result(c) == [i \in 1..Len(s) |->
                        IF \E k \in 1..limit : amb[k] = i
                        THEN LET k == CHOOSE k \in 1..limit : amb[k] = i
                             IN  options(k)[c[k]]
                        ELSE primary[i]]
    IN  {primary} \cup (IF limit > 0 THEN { result(c) : c \in combos } ELSE {})

\* the slice leetVariants returns: the keys of the variants map, each once, in
\* the order the range over the map yields them
leetVariantsOut(s) ==
    LET variants == leetVariants(s)
    IN  { q \in [1..Cardinality(variants) -> variants] : Range(q) = variants }

(***************************************************************************)
(* entropy.go                                                              *)
(***************************************************************************)
\* effectivePoolSize
effectivePoolSize(password) ==
    LET hasLower  == \E i \in 1..Len(password) : IsLower(password[i])
        hasUpper  == \E i \in 1..Len(password) :
                        ~IsLower(password[i]) /\ IsUpper(password[i])
        hasDigit  == \E i \in 1..Len(password) :
                        ~IsLower(password[i]) /\ ~IsUpper(password[i]) /\ IsDigit(password[i])
        hasSymbol == \E i \in 1..Len(password) :
                        ~IsLower(password[i]) /\ ~IsUpper(password[i]) /\ ~IsDigit(password[i])
    IN  (IF hasLower THEN 26 ELSE 0) + (IF hasUpper THEN 26 ELSE 0)
        + (IF hasDigit THEN 10 ELSE 0) + (IF hasSymbol THEN 33 ELSE 0)

\* math.Log2 of each pool size effectivePoolSize can return, in millionths of a bit
Log2Micro ==
    (10 :> 3321928) @@ (26 :> 4700440) @@ (33 :> 5044394) @@ (36 :> 5169925) @@
    (43 :> 5426265) @@ (52 :> 5700440) @@ (59 :> 5882643) @@ (62 :> 5954196) @@
    (69 :> 6108524) @@ (85 :> 6409391) @@ (95 :> 6569856)

\* calculateEntropy, in millionths of a bit
calculateEntropy(password) ==
    IF Len(Bytes(password)) = 0 THEN 0
    ELSE LET poolSize == effectivePoolSize(password)
         IN  IF poolSize <= 1 THEN 0
             ELSE Len(Bytes(password)) * Log2Micro[poolSize]

\* ScoreThreshold[s] is the least entropy (millionths of a bit) at which
\* math.Round(100 * (1 - math.Exp(-entropy/40))) reaches s, that is
\* -40 * ln(1 - (s - 0.5)/100), for s = 1..100.
ScoreThreshold ==
    << 200502, 604546, 1012713, 1425088, 1841758, 2262815, 2688350, 3118462,
       3553249, 3992814, 4437263, 4886706, 5341256, 5801031, 6266153, 6736747,
       7212943, 7694876, 8182687, 8676521, 9176527, 9682863, 10195690, 10715178,
       11241502, 11774843, 12315392, 12863345, 13418910, 13982300, 14553738,
       15133458, 15721704, 16318730, 16924802, 17540199, 18165212, 18800146,
       19445321, 20101073, 20767755, 21445738, 22135410, 22837182, 23551487,
       24278780, 25019542, 25774281, 26543536, 27327874, 28127901, 28944256,
       29777619, 30628715, 31498315, 32387240, 33296370, 34226645, 35179071,
       36154729, 37154781, 38180478, 39233171, 40314318, 41425500, 42568435,
       43744990, 44957204, 46207306, 47497741, 48831197, 50210644, 51639368,
       53121019, 54659670, 56259883, 57926791, 59666196, 61484691, 63389812,
       65390229, 67495979, 69718773, 72072393, 74573207, 77240862, 80099221,
       83177662, 86512927, 90151798, 94155136, 98604161, 103610687, 109334721,
       116016884, 124043712, 134096289, 147555179, 167988204, 211932695 >>

\* the least entropy at which 100 * (1 - math.Exp(-entropy/40)) reaches the
\* integer s, that is -40 * ln(1 - s/100), for s = 1..99
WholeThreshold ==
    << 402014, 808109, 1218369, 1632880, 2051732, 2475017, 2902828, 3335265, 3772428,
       4214421, 4661353, 5113335, 5570483, 6032916, 6500758, 6974136, 7453184, 7938038,
       8428842, 8925743, 9428894, 9938455, 10454591, 10977474, 11507283, 12044204,
       12588430, 13140163, 13699613, 14266998, 14842548, 15426500, 16019103, 16620618,
       17231317, 17851485, 18481419, 19121433, 19771853, 20433025, 21105310, 21789088,
       22484757, 23192740, 23913481, 24647446, 25395131, 26157059, 26933783, 27725888,
       28533996, 29358768, 30200904, 31061152, 31940308, 32839223, 33758803, 34700023,
       35663925, 36651630, 37664342, 38703362, 39770091, 40866050, 41992885, 43152387,
       44346505, 45577372, 46847320, 48158913, 49514975, 50918628, 52373333, 53882946,
       55451775, 57084655, 58787039, 60565110, 62425910, 64377517, 66429249, 68591938,
       70878274, 73303259, 75884800, 78644515, 81608834, 84810542, 88290997, 92103404,
       96317825, 101029146, 106370402, 112536429, 119829291, 128755033, 140262316,
       156480921, 184206808 >>

\* entropyToScore converting with int(score), without math.Round
entropyToScoreTruncates(entropy) ==
    IF entropy <= 0 THEN 0
    ELSE Cardinality({ n \in 1..Len(WholeThreshold) : WholeThreshold[n] <= entropy })

\* entropyToScore
entropyToScore(entropy) ==
    IF entropy <= 0 THEN 0
    ELSE LET s == Cardinality({ n \in 1..Len(ScoreThreshold) : ScoreThreshold[n] <= entropy })
         IN  IF s > 100 THEN 100 ELSE IF s < 0 THEN 0 ELSE s

(***************************************************************************)
(* penalties.go                                                            *)
(* A detector returns the sequence of the penalties it emits: empty, or    *)
(* one PenaltyDetail [Rule, Factor, Desc].  Desc is the list of the        *)
(* description's parts, each [text, n, word].                              *)
(***************************************************************************)
Part(text, n, word) == [text |-> text, n |-> n, word |-> word]

PenaltyDetail(rule, factor, desc) == [Rule |-> rule, Factor |-> factor, Desc |-> desc]

\* penaltyCommonPassword trying the leet variants before the exact match
penaltyCommonPasswordLeetFirst(lower, dict) ==
    LET hits == { w \in leetVariants(lower) : contains(dict, w) }
    IN  IF hits # {}
        THEN { << PenaltyDetail("common_password_leet", 150,
                     <<Part("password matches common password via leet-speak", 0, w)>>) >>
               : w \in hits }
        ELSE IF contains(dict, lower)
        THEN { << PenaltyDetail("common_password", 100,
                     <<Part("password is in the common passwords list", 0, <<>>)>>) >> }
        ELSE { <<>> }

\* penaltyCommonPassword: the penalties it may return.  The leet variants are
\* tried in the order of leetVariants' slice, so when several variants are in
\* the dictionary the one reported is any of them.
penaltyCommonPassword(lower, dict) ==
    IF contains(dict, lower)
    THEN { << PenaltyDetail("common_password", 100,
                 <<Part("password is in the common passwords list", 0, <<>>)>>) >> }
    ELSE LET hits == { w \in leetVariants(lower) : contains(dict, w) }
         IN  IF hits = {} THEN { <<>> }
             ELSE { << PenaltyDetail("common_password_leet", 150,
                          <<Part("password matches common password via leet-speak", 0, w)>>) >>
                    : w \in hits }

\* the loop of penaltyRepeatedChars: the longest run of equal bytes
RECURSIVE RepeatLoop(_, _, _, _)
RepeatLoop(b, i, current, maxRepeat) ==
    IF i > Len(b) THEN maxRepeat
    ELSE IF b[i] = b[i - 1]
         THEN RepeatLoop(b, i + 1, current + 1, Max2(maxRepeat, current + 1))
         ELSE RepeatLoop(b, i + 1, 1, maxRepeat)

\* the loop of penaltySequentialChars: the longest run of bytes whose
\* neighbours differ by 1 or by -1
RECURSIVE SequenceLoop(_, _, _, _)
SequenceLoop(b, i, current, maxSeq) ==
    IF i > Len(b) THEN maxSeq
    ELSE LET diff == b[i] - b[i - 1]
         IN  IF diff = 1 \/ diff = -1
             THEN SequenceLoop(b, i + 1, current + 1, Max2(maxSeq, current + 1))
             ELSE SequenceLoop(b, i + 1, 1, maxSeq)

\* fmt's %.0f of 100 * num / den (round half to even)
Percent(num, den) ==
    LET q == (100 * num) \div den
        r == (100 * num) % den
    IN  IF 2 * r > den \/ (2 * r = den /\ q % 2 = 1) THEN q + 1 ELSE q

\* penaltyRepeatedChars
penaltyRepeatedChars(lower) ==
    LET b == Bytes(lower) IN
    IF Len(b) < 3 THEN <<>>
    ELSE LET maxRepeat == RepeatLoop(b, 2, 1, 1)
             unique    == Cardinality(Range(lower))
             \* uniqueRatio = unique / len(lower); uniqueRatio < 0.4, < 0.6
             low       == 5 * unique < 2 * Len(b)
             moderate  == ~low /\ 5 * unique < 3 * Len(b)
             f1        == IF maxRepeat >= 4 THEN 400 ELSE IF maxRepeat >= 3 THEN 600 ELSE 1000
             r1        == IF maxRepeat >= 3
                          THEN <<Part("consecutive repeated characters", maxRepeat, <<>>)>>
                          ELSE <<>>
             f2        == IF low THEN (f1 * 500) \div 1000
                          ELSE IF moderate THEN (f1 * 700) \div 1000 ELSE f1
             r2        == IF low
                          THEN <<Part("low character diversity", Percent(unique, Len(b)), <<>>)>>
                          ELSE IF moderate
                          THEN <<Part("moderate character diversity", Percent(unique, Len(b)), <<>>)>>
                          ELSE <<>>
         IN  IF f2 < 1000 THEN <<PenaltyDetail("repeated_chars", f2, r1 \o r2)>> ELSE <<>>

\* penaltySequentialChars
penaltySequentialChars(lower) ==
    LET b == Bytes(lower) IN
    IF Len(b) < 3 THEN <<>>
    ELSE LET maxSeq == SequenceLoop(b, 2, 1, 1)
         IN  IF maxSeq >= 5
             THEN <<PenaltyDetail("sequential_chars", 300,
                        <<Part("long sequential pattern detected", maxSeq, <<>>)>>)>>
             ELSE IF maxSeq >= 4
             THEN <<PenaltyDetail("sequential_chars", 500,
                        <<Part("sequential pattern detected", maxSeq, <<>>)>>)>>
             ELSE IF maxSeq >= 3
             THEN <<PenaltyDetail("sequential_chars", 700,
                        <<Part("short sequential pattern detected", maxSeq, <<>>)>>)>>
             ELSE <<>>

\* keyboardRows: qwertyuiop, asdfghjkl, zxcvbnm, 1234567890, qazwsx, edcrfv,
\* tgbyhn, yujm
keyboardRows ==
    << <<113, 119, 101, 114, 116, 121, 117, 105, 111, 112>>,
       <<97, 115, 100, 102, 103, 104, 106, 107, 108>>,
       <<122, 120, 99, 118, 98, 110, 109>>,
       <<49, 50, 51, 52, 53, 54, 55, 56, 57, 48>>,
       <<113, 97, 122, 119, 115, 120>>,
       <<101, 100, 99, 114, 102, 118>>,
       <<116, 103, 98, 121, 104, 110>>,
       <<121, 117, 106, 109>> >>

\* reverseString
reverseString(s) == [i \in 1..Len(s) |-> s[Len(s) + 1 - i]]

\* the innermost loop of longestCommonSubstringLen: how far a from i and b
\* from j agree
RECURSIVE MatchLen(_, _, _, _)
MatchLen(a, b, i, j) ==
    IF i <= Len(a) /\ j <= Len(b) /\ a[i] = b[j] THEN 1 + MatchLen(a, b, i + 1, j + 1) ELSE 0

\* longestCommonSubstringLen, on bytes
longestCommonSubstringLen(a, b) ==
    IF Len(a) = 0 \/ Len(b) = 0 THEN 0
    ELSE SetMax({ MatchLen(a, b, i, j) : i \in 1..Len(a), j \in 1..Len(b) })

\* penaltyKeyboardPatterns
penaltyKeyboardPatterns(lower) ==
    LET b == Bytes(lower)
        matches == { longestCommonSubstringLen(b, Bytes(keyboardRows[r])) :
                        r \in 1..Len(keyboardRows) }
                   \cup
                   { longestCommonSubstringLen(b, Bytes(reverseString(keyboardRows[r]))) :
                        r \in 1..Len(keyboardRows) }
        bestMatch == SetMax(matches \cup {0})
    IN  IF bestMatch >= 6
        THEN <<PenaltyDetail("keyboard_pattern", 200,
                   <<Part("long keyboard pattern detected", bestMatch, <<>>)>>)>>
        ELSE IF bestMatch >= 5
        THEN <<PenaltyDetail("keyboard_pattern", 400,
                   <<Part("keyboard pattern detected", bestMatch, <<>>)>>)>>
        ELSE IF bestMatch >= 4
        THEN <<PenaltyDetail("keyboard_pattern", 600,
                   <<Part("short keyboard pattern detected", bestMatch, <<>>)>>)>>
        ELSE <<>>

\* the loop of penaltyDictionarySubstring over dict.words: the first longest
\* word of at least 4 bytes contained in lower or in normalized
RECURSIVE LongestMatch(_, _, _, _)
LongestMatch(words, lowerB, normB, longestMatch) ==
    IF words = <<>> THEN longestMatch
    ELSE LET word == Head(words)
             wb   == Bytes(word)
             take == Len(wb) >= 4
                     /\ (Contains(lowerB, wb) \/ Contains(normB, wb))
                     /\ Len(wb) > Len(Bytes(longestMatch))
         IN  LongestMatch(Tail(words), lowerB, normB, IF take THEN word ELSE longestMatch)

\* penaltyDictionarySubstring
penaltyDictionarySubstring(lower, dict) ==
    LET normalized   == leetNormalize(lower)
        longestMatch == LongestMatch(dict.words, Bytes(lower), Bytes(normalized), <<>>)
        w            == Len(Bytes(longestMatch))
        n            == Len(Bytes(lower))
    IN  IF longestMatch = <<>> THEN <<>>
        \* ratio = w / n; ratio >= 0.8, >= 0.5, >= 0.3
        ELSE IF 5 * w >= 4 * n
        THEN <<PenaltyDetail("dictionary_substring", 200,
                   <<Part("password is mostly the dictionary word", 0, longestMatch)>>)>>
        ELSE IF 2 * w >= n
        THEN <<PenaltyDetail("dictionary_substring", 500,
                   <<Part("password contains dictionary word", 0, longestMatch)>>)>>
        ELSE IF 10 * w >= 3 * n
        THEN <<PenaltyDetail("dictionary_substring", 700,
                   <<Part("password contains dictionary word", 0, longestMatch)>>)>>
        ELSE <<>>

\* detectPenalties returning at the first detector that fires
detectPenaltiesFirstOnly(password, dict) ==
    LET lower == ToLower(password)
        rest  == penaltyRepeatedChars(lower) \o penaltySequentialChars(lower)
                 \o penaltyKeyboardPatterns(lower) \o penaltyDictionarySubstring(lower, dict)
    IN  { IF common # <<>> THEN common ELSE SubSeq(rest, 1, Min2(1, Len(rest)))
          : common \in penaltyCommonPassword(lower, dict) }

\* detectPenalties: the penalty lists it may return
detectPenalties(password, dict) ==
    LET lower == ToLower(password)
    IN  { common \o penaltyRepeatedChars(lower) \o penaltySequentialChars(lower)
            \o penaltyKeyboardPatterns(lower) \o penaltyDictionarySubstring(lower, dict)
          : common \in penaltyCommonPassword(lower, dict) }

(***************************************************************************)
(* validator.go                                                            *)
(***************************************************************************)
\* NewPasswordValidatorWithDict clamping max against the min argument as
\* passed, before min is raised to 1
NewClampMaxFirst(min, max, lower, upper, numbers, symbols, complexity, customDict) ==
    LET c1   == IF complexity < 0 THEN 0 ELSE complexity
        c2   == IF c1 > 100 THEN 100 ELSE c1
        max1 == IF max < min THEN min ELSE max
        min1 == IF min < 1 THEN 1 ELSE min
        dict == IF customDict # <<>> THEN loadDictionary(customDict) ELSE globalDict
    IN  [ MinLength      |-> min1,
          MaxLength      |-> max1,
          RequireLower   |-> lower,
          RequireUpper   |-> upper,
          RequireNumbers |-> numbers,
          RequireSymbols |-> symbols,
          Complexity     |-> c2,
          dict           |-> dict ]

\* NewPasswordValidatorWithDict; customDict is given as its lines, and the
\* empty string is the empty sequence of lines
NewPasswordValidatorWithDict(min, max, lower, upper, numbers, symbols, complexity, customDict) ==
    LET c1   == IF complexity < 0 THEN 0 ELSE complexity
        c2   == IF c1 > 100 THEN 100 ELSE c1
        min1 == IF min < 1 THEN 1 ELSE min
        max1 == IF max < min1 THEN min1 ELSE max
        dict == IF customDict # <<>> THEN loadDictionary(customDict) ELSE globalDict
    IN  [ MinLength      |-> min1,
          MaxLength      |-> max1,
          RequireLower   |-> lower,
          RequireUpper   |-> upper,
          RequireNumbers |-> numbers,
          RequireSymbols |-> symbols,
          Complexity     |-> c2,
          dict           |-> dict ]

\* charClasses
charClasses(password) ==
    [ lower  |-> \E i \in 1..Len(password) : IsLower(password[i]),
      upper  |-> \E i \in 1..Len(password) :
                    ~IsLower(password[i]) /\ IsUpper(password[i]),
      number |-> \E i \in 1..Len(password) :
                    ~IsLower(password[i]) /\ ~IsUpper(password[i]) /\ IsDigit(password[i]),
      symbol |-> \E i \in 1..Len(password) :
                    ~IsLower(password[i]) /\ ~IsUpper(password[i]) /\ ~IsDigit(password[i])
                    /\ IsPunctOrSymbol(password[i]) ]

\* one entry of ValidationError.RuleFails: the text and the numbers formatted in
RuleFail(text, a, b) == [text |-> text, a |-> a, b |-> b]

\* ruleChecks returning at the first failed rule
ruleChecksShortCircuit(v, password) ==
    LET n  == Len(Bytes(password))
        cc == charClasses(password)
    IN  IF n < v.MinLength THEN <<RuleFail("too short", v.MinLength, 0)>>
        ELSE IF n > v.MaxLength THEN <<RuleFail("too long", v.MaxLength, 0)>>
        ELSE IF v.RequireLower /\ ~cc.lower THEN <<RuleFail("missing lowercase letter", 0, 0)>>
        ELSE IF v.RequireUpper /\ ~cc.upper THEN <<RuleFail("missing uppercase letter", 0, 0)>>
        ELSE IF v.RequireNumbers /\ ~cc.number THEN <<RuleFail("missing number", 0, 0)>>
        ELSE IF v.RequireSymbols /\ ~cc.symbol THEN <<RuleFail("missing symbol", 0, 0)>>
        ELSE <<>>

\* the rule checks of validate, in the order of the code
ruleChecks(v, password) ==
    LET n  == Len(Bytes(password))
        cc == charClasses(password)
    IN  (IF n < v.MinLength THEN <<RuleFail("too short", v.MinLength, 0)>> ELSE <<>>)
        \o (IF n > v.MaxLength THEN <<RuleFail("too long", v.MaxLength, 0)>> ELSE <<>>)
        \o (IF v.RequireLower /\ ~cc.lower
            THEN <<RuleFail("missing lowercase letter", 0, 0)>> ELSE <<>>)
        \o (IF v.RequireUpper /\ ~cc.upper
            THEN <<RuleFail("missing uppercase letter", 0, 0)>> ELSE <<>>)
        \o (IF v.RequireNumbers /\ ~cc.number
            THEN <<RuleFail("missing number", 0, 0)>> ELSE <<>>)
        \o (IF v.RequireSymbols /\ ~cc.symbol
            THEN <<RuleFail("missing symbol", 0, 0)>> ELSE <<>>)

\* The pairs (score, factor) at which the float64 product score * factor falls
\* just below the exact product, an integer, so that int() truncates to one
\* less: 0.4*0.7 is 0.27999999999999997, and 90 * 0.7 is 62.99999999999999.
RoundsBelow == { <<25, 280>>, <<50, 280>>, <<75, 280>>, <<100, 280>>, <<90, 700>> }

\* applyFactor dividing the score by the factor
applyFactorDivides(score, factor) == (score * 1000) \div factor

\* int(float64(score) * p.Factor)
applyFactor(score, factor) ==
    LET exact == (score * factor) \div 1000
    IN  IF <<score, factor>> \in RoundsBelow THEN exact - 1 ELSE exact

\* the loop of validate over the penalties
RECURSIVE applyPenalties(_, _)
applyPenalties(score, penalties) ==
    IF penalties = <<>> THEN score
    ELSE applyPenalties(applyFactor(score, Head(penalties).Factor), Tail(penalties))

\* the clamp of validate
clampScore(score) == IF score < 0 THEN 0 ELSE IF score > 100 THEN 100 ELSE score

\* verdict with the threshold compared strictly (score > v.Complexity)
verdictStrictThreshold(v, ruleFails, penalties, score) ==
    LET rulesPass      == Len(ruleFails) = 0
        complexityPass == score > v.Complexity
    IN  [ pass  |-> rulesPass /\ complexityPass,
          score |-> score,
          vErr  |-> [ Penalties |-> penalties,
                      RuleFails |-> IF ~complexityPass
                                    THEN Append(ruleFails,
                                           RuleFail("complexity below threshold", score, v.Complexity))
                                    ELSE ruleFails ] ]

\* the verdict of validate from the rule failures, the penalties and the score
verdict(v, ruleFails, penalties, score) ==
    LET rulesPass      == Len(ruleFails) = 0
        complexityPass == score >= v.Complexity
    IN  [ pass  |-> rulesPass /\ complexityPass,
          score |-> score,
          vErr  |-> [ Penalties |-> penalties,
                      RuleFails |-> IF ~complexityPass
                                    THEN Append(ruleFails,
                                           RuleFail("complexity below threshold", score, v.Complexity))
                                    ELSE ruleFails ] ]

\* validate clamping the raw score first and then taking each penalty off as
\* percentage points
validateSubtractAfterClamp(v, password) ==
    LET ruleFails == ruleChecks(v, password)
        raw       == clampScore(entropyToScore(calculateEntropy(password)))
        off(ps)   == IF ps = <<>> THEN 0 ELSE (1000 - ps[1].Factor) \div 10
    IN  { verdict(v, ruleFails, penalties, raw - off(penalties))
          : penalties \in detectPenalties(password, v.dict) }

\* validate: the results it may return, each [pass, score, vErr]
validate(v, password) ==
    LET ruleFails == ruleChecks(v, password)
        raw       == entropyToScore(calculateEntropy(password))
    IN  { verdict(v, ruleFails, penalties, clampScore(applyPenalties(raw, penalties)))
          : penalties \in detectPenalties(password, v.dict) }

\* the error of a return: nil, or a *ValidationError
NilError == [nil |-> TRUE, Penalties |-> <<>>, RuleFails |-> <<>>]

ErrorOf(vErr) == [nil |-> FALSE, Penalties |-> vErr.Penalties, RuleFails |-> vErr.RuleFails]

\* what Validate returns of a result of validate: pass, score
TerseReturn(r) ==
    [op |-> "Validate", pass |-> r.pass, score |-> r.score, err |-> NilError]

\* VerboseReturn handing out the ValidationError whenever it holds a penalty
VerboseReturnDetailOnPenalty(r) ==
    [op |-> "ValidateVerbose", pass |-> r.pass, score |-> r.score,
     err |-> IF r.pass /\ r.vErr.Penalties = <<>> THEN NilError ELSE ErrorOf(r.vErr)]

\* what ValidateVerbose returns of a result of validate: nil when it passes,
\* the ValidationError otherwise
VerboseReturn(r) ==
    [op |-> "ValidateVerbose", pass |-> r.pass, score |-> r.score,
     err |-> IF r.pass THEN NilError ELSE ErrorOf(r.vErr)]

\* Validate: the returns it may make
ValidateResults(v, password) == { TerseReturn(r) : r \in validate(v, password) }

(***************************************************************************)
(* validator.go: Generate                                                  *)
(***************************************************************************)
maxAttempts == 1000

lowerChars == [i \in 1..26 |-> 96 + i]

upperChars == [i \in 1..26 |-> 64 + i]

numberChars == [i \in 1..10 |-> 47 + i]

\* !@#$%^&*()-_=+[]{}|;:',.<>?/`~
symbolChars ==
    << 33, 64, 35, 36, 37, 94, 38, 42, 40, 41, 45, 95, 61, 43, 91, 93, 123, 125, 124,
       59, 58, 39, 44, 46, 60, 62, 63, 47, 96, 126 >>

\* The characters the random draws of the generator runs land on: 'a', 'A',
\* '1', '!'.
GenAlphabet == {97, 65, 49, 33}

\* chars[n] for the values n that rand.Int(rand.Reader, len(chars)) is let to take
Draw(chars) == { chars[n + 1] : n \in 0..(Len(chars) - 1) } \cap GenAlphabet

\* positions with the elements at (0-based) i and j swapped
Swap(positions, i, j) ==
    [positions EXCEPT ![i + 1] = positions[j + 1], ![j + 1] = positions[i + 1]]

\* the shuffle loop of generateCandidate from index i down to 1
RECURSIVE Shuffle(_, _)
Shuffle(positions, i) ==
    IF i <= 0 THEN {positions}
    ELSE UNION { Shuffle(Swap(positions, i, j), i - 1) : j \in 0..i }

\* the charsets of the required classes, in the order of the code
requiredOf(v) ==
    (IF v.RequireLower THEN <<lowerChars>> ELSE <<>>)
    \o (IF v.RequireUpper THEN <<upperChars>> ELSE <<>>)
    \o (IF v.RequireNumbers THEN <<numberChars>> ELSE <<>>)
    \o (IF v.RequireSymbols THEN <<symbolChars>> ELSE <<>>)

\* the charset the remaining positions are filled from
charsetOf(v) ==
    LET charset == (IF v.RequireLower THEN lowerChars ELSE <<>>)
                   \o (IF v.RequireUpper THEN upperChars ELSE <<>>)
                   \o (IF v.RequireNumbers THEN numberChars ELSE <<>>)
                   \o (IF v.RequireSymbols THEN symbolChars ELSE <<>>)
    IN  IF charset = <<>> THEN lowerChars \o upperChars \o numberChars \o symbolChars
        ELSE charset

\* generateCandidate: the candidates it may build.  reqPos lists the (0-based)
\* positions the mandatory characters were written to; fault is the run-time
\* panic of pwd[positions[pos]] when there are more required classes than
\* positions.
generateCandidate(v) ==
    LET lengths  == IF v.MaxLength > v.MinLength THEN v.MinLength..v.MaxLength
                    ELSE {v.MinLength}
        required == requiredOf(v)
        charset  == charsetOf(v)
        nreq     == Len(required)
        build(length, positions, draws) ==
            [ pwd    |-> [p \in 1..length |->
                            draws[CHOOSE k \in 1..length : positions[k] = p - 1]],
              reqPos |-> [k \in 1..nreq |-> positions[k]],
              fault  |-> FALSE ]
        drawsOf(length) ==
            { d \in [1..length -> GenAlphabet] :
                \A k \in 1..length :
                    d[k] \in (IF k <= nreq THEN Draw(required[k]) ELSE Draw(charset)) }
    IN  UNION { UNION { IF nreq > length
                        THEN { [pwd |-> <<>>, reqPos |-> <<>>, fault |-> TRUE] }
                        ELSE { build(length, positions, d) : d \in drawsOf(length) }
                      : positions \in Shuffle([k \in 1..length |-> k - 1], length - 1) }
              : length \in lengths }

(***************************************************************************)
(* State.                                                                  *)
(***************************************************************************)
VARIABLES
    args,       \* the arguments the constructor is called with
    v,          \* the validator, NoValidator before NewPasswordValidatorWithDict
    password,   \* the password the calls validate
    ret,        \* what the last call returned: [op, pass, score, err]
    detail,     \* the ValidationError the last call's validate built
    first,      \* what the first ValidateVerbose(password) returned
    gen,        \* Generate: [pc, i, cand, pwd]
    out         \* the last direct call of a package function: [op, arg, val]

vars == <<args, v, password, ret, detail, first, gen, out>>

NoValidator == [ MinLength |-> 0, MaxLength |-> 0, RequireLower |-> FALSE,
                 RequireUpper |-> FALSE, RequireNumbers |-> FALSE,
                 RequireSymbols |-> FALSE, Complexity |-> 0,
                 dict |-> [set |-> {}, words |-> <<>>] ]

NoReturn == [op |-> "none", pass |-> FALSE, score |-> 0, err |-> NilError]

NoDetail == [Penalties |-> <<>>, RuleFails |-> <<>>]

NoCandidate == [pwd |-> <<>>, reqPos |-> <<>>, fault |-> FALSE]

GenIdle == [pc |-> "idle", i |-> 0, cand |-> NoCandidate, pwd |-> <<>>]

NoOut == [op |-> "none", arg |-> <<>>, val |-> <<>>]

Constructed == v # NoValidator

Args(min, max, lower, upper, numbers, symbols, complexity, customDict) ==
    [ min |-> min, max |-> max, lower |-> lower, upper |-> upper, numbers |-> numbers,
      symbols |-> symbols, complexity |-> complexity, customDict |-> customDict ]

(***************************************************************************)
(* Inputs of the validation runs.                                          *)
(***************************************************************************)
\* 'a', 'B', '1', '!', ' ', 'é'
MixedAlphabet == {97, 66, 49, 33, 32, 233}

\* '1', '2', '3', '4'
DigitAlphabet == {49, 50, 51, 52}

\* a custom dictionary text: "1234", "Zeal ", "", "ia", "la", "eeee", "123444"
SampleDict ==
    << <<49, 50, 51, 52>>, <<90, 101, 97, 108, 32>>, <<>>, <<105, 97>>, <<108, 97>>,
       <<101, 101, 101, 101>>, <<49, 50, 51, 52, 52, 52>> >>

\* every combination of the rules, on the short passwords of every class mix
RuleInputs ==
    { <<Args(min, max, lo, up, nu, sy, cx, <<>>), p>> :
        min \in {0, 2}, max \in {1}, lo \in BOOLEAN, up \in BOOLEAN, nu \in BOOLEAN,
        sy \in BOOLEAN, cx \in {-5, 20}, p \in SeqsUpTo(MixedAlphabet, MaxMixedLen) }

\* the digit passwords, long enough for every detector, on a custom dictionary
PenaltyInputs ==
    { <<Args(2, 5, FALSE, FALSE, TRUE, FALSE, 20, SampleDict), p>> :
        p \in SeqsUpTo(DigitAlphabet, MaxDigitLen) }

(***************************************************************************)
(* Actions.                                                                *)
(***************************************************************************)
\* v := NewPasswordValidatorWithDict(args...)
New ==
    /\ ~Constructed
    /\ v' = NewPasswordValidatorWithDict(args.min, args.max, args.lower, args.upper,
                args.numbers, args.symbols, args.complexity, args.customDict)
    /\ UNCHANGED <<args, password, ret, detail, first, gen, out>>

\* pass, score := v.Validate(password)
Validate ==
    /\ Constructed
    /\ \E r \in validate(v, password) :
          /\ ret' = TerseReturn(r)
          /\ detail' = r.vErr
    /\ UNCHANGED <<args, v, password, first, gen, out>>

\* pass, score, err := v.ValidateVerbose(password)
ValidateVerbose ==
    /\ Constructed
    /\ \E r \in validate(v, password) :
          /\ ret' = VerboseReturn(r)
          /\ detail' = r.vErr
          /\ first' = IF first.op = "none" THEN VerboseReturn(r) ELSE first
    /\ UNCHANGED <<args, v, password, gen, out>>

Init ==
    /\ \E in \in RuleInputs \cup PenaltyInputs : args = in[1] /\ password = in[2]
    /\ v = NoValidator
    /\ ret = NoReturn
    /\ detail = NoDetail
    /\ first = NoReturn
    /\ gen = GenIdle
    /\ out = NoOut

Next == New \/ Validate \/ ValidateVerbose

Spec == Init /\ [][Next]_vars

(***************************************************************************)
(* Properties of Validate and ValidateVerbose (Spec).                      *)
(***************************************************************************)
Called == ret.op \in {"Validate", "ValidateVerbose"}

Shortfall == "complexity below threshold"

\* the entries of the last call's rule failures that are not the shortfall
StructuralFails == SelectSeq(detail.RuleFails, LAMBDA f : f.text # Shortfall)

HasShortfall == \E i \in 1..Len(detail.RuleFails) : detail.RuleFails[i].text = Shortfall

\* C1: Validate returns pass = true exactly when no length or character-class
\* rule failed and the final score is at least the threshold, and the
\* shortfall entry is in the rule failures exactly when the score is below
\* the threshold.
C1_PassIffRulesAndThreshold ==
    ret.op = "Validate" =>
        /\ ret.pass <=> (StructuralFails = <<>> /\ ret.score >= v.Complexity)
        /\ HasShortfall <=> (ret.score < v.Complexity)
        /\ ret.score >= v.Complexity => detail.RuleFails = StructuralFails

\* C1 witness: Validate rejected a password that broke no rule, on the
\* threshold alone, one point short of it
C1_Witness ==
    /\ ret.op = "Validate"
    /\ ~ret.pass
    /\ StructuralFails = <<>>
    /\ HasShortfall
    /\ ret.score = v.Complexity - 1

\* C2: the score Validate and ValidateVerbose return is in 0..100.
C2_ScoreInRange == Called => ret.score \in 0..100

\* C2 witness: the empty password was validated (score 0), by ValidateVerbose
C2_Witness == ret.op = "ValidateVerbose" /\ password = <<>> /\ ret.score = 0

\* C3 (as claimed): every ValidateVerbose of the password returns what the
\* first one returned: pass, score, rule failures and penalties with their
\* descriptions.
C3_Reproducible ==
    (ret.op = "ValidateVerbose" /\ first.op = "ValidateVerbose") => ret = first

RuleOrder ==
    << "too short", "too long", "missing lowercase letter", "missing uppercase letter",
       "missing number", "missing symbol", Shortfall >>

RuleIndex(text) == CHOOSE i \in 1..Len(RuleOrder) : RuleOrder[i] = text

\* whether the password breaks the rule, by the length len(password) measures
\* and the classes of its characters
Violates(rule) ==
    LET n == Len(Bytes(password))
        has(Class(_)) == \E i \in 1..Len(password) : Class(password[i])
    IN  CASE rule = "too short" -> n < v.MinLength
          [] rule = "too long" -> n > v.MaxLength
          [] rule = "missing lowercase letter" -> v.RequireLower /\ ~has(IsLower)
          [] rule = "missing uppercase letter" -> v.RequireUpper /\ ~has(IsUpper)
          [] rule = "missing number" -> v.RequireNumbers /\ ~has(IsDigit)
          [] rule = "missing symbol" -> v.RequireSymbols /\ ~has(IsPunctOrSymbol)
          [] OTHER -> ret.score < v.Complexity

\* C4: the rule failures hold one entry for each broken rule and none for a
\* rule that is met, in the order too short, too long, missing lowercase,
\* missing uppercase, missing number, missing symbol, then the shortfall.
C4_AllRuleFailuresInOrder ==
    Called =>
        /\ \A i \in 1..Len(detail.RuleFails) : detail.RuleFails[i].text \in Range(RuleOrder)
        /\ \A i, j \in 1..Len(detail.RuleFails) :
              i < j => RuleIndex(detail.RuleFails[i].text) < RuleIndex(detail.RuleFails[j].text)
        /\ \A k \in 1..Len(RuleOrder) :
              (\E i \in 1..Len(detail.RuleFails) : detail.RuleFails[i].text = RuleOrder[k])
              <=> Violates(RuleOrder[k])

\* C4 witness: a password that breaks a length rule and three class rules and
\* misses the threshold: five entries
C4_Witness == Called /\ Len(detail.RuleFails) = 5

DetectorOrder ==
    << {"common_password", "common_password_leet"}, {"repeated_chars"},
       {"sequential_chars"}, {"keyboard_pattern"}, {"dictionary_substring"} >>

DetectorIndex(rule) == CHOOSE i \in 1..Len(DetectorOrder) : rule \in DetectorOrder[i]

\* the penalties of the last call that carry a tag of detector k
PenaltiesOf(k) == SelectSeq(detail.Penalties, LAMBDA p : p.Rule \in DetectorOrder[k])

\* C10: the penalties hold at most one penalty per detector, in the order
\* common password, repeated, sequential, keyboard, dictionary substring;
\* what each detector emits on the lower-cased password is in the list,
\* whatever the other detectors emit; every tag is one of the six.
C10_PenaltiesInDetectorOrder ==
    Called =>
        LET lower == ToLower(password) IN
        /\ \A i \in 1..Len(detail.Penalties) :
              detail.Penalties[i].Rule \in UNION Range(DetectorOrder)
        /\ \A i, j \in 1..Len(detail.Penalties) :
              i < j => DetectorIndex(detail.Penalties[i].Rule)
                         < DetectorIndex(detail.Penalties[j].Rule)
        /\ PenaltiesOf(1) \in penaltyCommonPassword(lower, v.dict)
        /\ PenaltiesOf(2) = penaltyRepeatedChars(lower)
        /\ PenaltiesOf(3) = penaltySequentialChars(lower)
        /\ PenaltiesOf(4) = penaltyKeyboardPatterns(lower)
        /\ PenaltiesOf(5) = penaltyDictionarySubstring(lower, v.dict)

\* C10 witness: all five detectors fired on one password
C10_Witness == Called /\ Len(detail.Penalties) = 5

\* C12: every penalty in the list has a factor in (0,1], and the final score is
\* at most the raw score entropyToScore(calculateEntropy(password)).
C12_PenaltiesNeverRaise ==
    Called =>
        /\ \A i \in 1..Len(detail.Penalties) :
              detail.Penalties[i].Factor > 0 /\ detail.Penalties[i].Factor <= 1000
        /\ ret.score <= entropyToScore(calculateEntropy(password))

\* C12 witness: a password with a positive raw score was validated with two or
\* more penalties and came out lower
C12_Witness ==
    /\ Called
    /\ Len(detail.Penalties) >= 2
    /\ ret.score > 0
    /\ ret.score < entropyToScore(calculateEntropy(password))

RECURSIVE GCD(_, _)
GCD(a, b) == IF b = 0 THEN a ELSE GCD(b, a % b)

\* the product of the factors of the penalties as a fraction: each factor, in
\* thousandths, in lowest terms
RECURSIVE FactorNumerator(_)
FactorNumerator(penalties) ==
    IF penalties = <<>> THEN 1
    ELSE LET f == Head(penalties).Factor
         IN  (f \div GCD(f, 1000)) * FactorNumerator(Tail(penalties))

RECURSIVE FactorDenominator(_)
FactorDenominator(penalties) ==
    IF penalties = <<>> THEN 1
    ELSE LET f == Head(penalties).Factor
         IN  (1000 \div GCD(f, 1000)) * FactorDenominator(Tail(penalties))

\* the penalties in every order
Reorderings(penalties) ==
    LET n == Len(penalties)
    IN  { [i \in 1..n |-> penalties[q[i]]] :
            q \in { f \in [1..n -> 1..n] : Range(f) = 1..n } }

\* C21: the final score is the integer part of the raw score times the product
\* of the factors of all the applied penalties, clamped to 0..100; and it is
\* the same in whatever order the factors are multiplied in.
C21_ProductOfFactors ==
    Called =>
        LET raw == entropyToScore(calculateEntropy(password))
        IN  /\ ret.score = clampScore((raw * FactorNumerator(detail.Penalties))
                                      \div FactorDenominator(detail.Penalties))
            /\ \A ps \in Reorderings(detail.Penalties) :
                  clampScore(applyPenalties(raw, ps)) = ret.score

\* C15 (as claimed): the length the rules compare with MinLength and MaxLength,
\* and the length in the entropy, is the number of code points of the
\* password: with MinLength <= n <= MaxLength code points there is neither a
\* "too short" nor a "too long" failure.
C15_LengthInCodePoints ==
    Called =>
        LET n == Len(password) IN
        /\ (v.MinLength <= n /\ n <= v.MaxLength) =>
              \A i \in 1..Len(detail.RuleFails) :
                  detail.RuleFails[i].text \notin {"too short", "too long"}
        /\ effectivePoolSize(password) > 1 =>
              calculateEntropy(password) = n * Log2Micro[effectivePoolSize(password)]

(***************************************************************************)
(* The detectors called one by one, as detectPenalties calls them: on the  *)
(* lower-cased password and the validator's dictionary.                    *)
(***************************************************************************)
\* 14, la, 4321, 2344, 1234, 3333
OtherDict ==
    << <<49, 52>>, <<108, 97>>, <<52, 51, 50, 49>>, <<50, 51, 52, 52>>,
       <<49, 50, 51, 52>>, <<51, 51, 51, 51>> >>

\* each dictionary with its lines in both orders
DetectDicts == { SampleDict, Reverse(SampleDict), OtherDict, Reverse(OtherDict) }

DetectInputs == { Args(1, 8, FALSE, FALSE, FALSE, FALSE, 0, d) : d \in DetectDicts }

\* every short string over the two alphabets, and "\u00e91234"
DetectPasswords ==
    SeqsUpTo(DigitAlphabet, MaxDetectLen) \cup SeqsUpTo(MixedAlphabet, MaxMixedLen)
    \cup { <<233, 49, 50, 51, 52>> }

\* p := penaltyCommonPassword(lower, dict)
CallCommonPassword ==
    /\ Constructed
    /\ \E p \in penaltyCommonPassword(ToLower(password), v.dict) :
          out' = [op |-> "penaltyCommonPassword", arg |-> ToLower(password), val |-> p]
    /\ UNCHANGED <<args, v, password, ret, detail, first, gen>>

\* p := penaltyRepeatedChars(lower)
CallRepeatedChars ==
    /\ Constructed
    /\ out' = [op |-> "penaltyRepeatedChars", arg |-> ToLower(password),
               val |-> penaltyRepeatedChars(ToLower(password))]
    /\ UNCHANGED <<args, v, password, ret, detail, first, gen>>

\* p := penaltySequentialChars(lower)
CallSequentialChars ==
    /\ Constructed
    /\ out' = [op |-> "penaltySequentialChars", arg |-> ToLower(password),
               val |-> penaltySequentialChars(ToLower(password))]
    /\ UNCHANGED <<args, v, password, ret, detail, first, gen>>

\* p := penaltyDictionarySubstring(lower, dict)
CallDictionarySubstring ==
    /\ Constructed
    /\ out' = [op |-> "penaltyDictionarySubstring", arg |-> ToLower(password),
               val |-> penaltyDictionarySubstring(ToLower(password), v.dict)]
    /\ UNCHANGED <<args, v, password, ret, detail, first, gen>>

InitDetect ==
    /\ args \in DetectInputs
    /\ password \in DetectPasswords
    /\ v = NoValidator
    /\ ret = NoReturn
    /\ detail = NoDetail
    /\ first = NoReturn
    /\ gen = GenIdle
    /\ out = NoOut

NextDetect ==
    \/ New
    \/ CallCommonPassword
    \/ CallRepeatedChars
    \/ CallSequentialChars
    \/ CallDictionarySubstring

SpecDetect == InitDetect /\ [][NextDetect]_vars

\* C11: the common-password detector emits one common_password penalty of
\* factor 0.1 when the lower-cased password is a dictionary entry; otherwise
\* one common_password_leet penalty of factor 0.15, naming a leet variant that
\* is a dictionary entry, when there is such a variant; otherwise nothing.
\* It never emits both.
C11_CommonPasswordDetector ==
    out.op = "penaltyCommonPassword" =>
        LET lower    == ToLower(password)
            entries  == v.dict.set
            variants == leetVariants(lower)
        IN  /\ Len(out.val) <= 1
            /\ lower \in entries =>
                  /\ Len(out.val) = 1
                  /\ out.val[1].Rule = "common_password"
                  /\ out.val[1].Factor = 100
            /\ (lower \notin entries /\ variants \cap entries # {}) =>
                  /\ Len(out.val) = 1
                  /\ out.val[1].Rule = "common_password_leet"
                  /\ out.val[1].Factor = 150
                  /\ out.val[1].Desc[1].word \in variants \cap entries
            /\ (lower \notin entries /\ variants \cap entries = {}) => out.val = <<>>

\* C11 witness: a password that is a dictionary entry and has a leet variant
\* in the dictionary too got the common_password penalty alone
C11_Witness ==
    /\ out.op = "penaltyCommonPassword"
    /\ ToLower(password) \in v.dict.set
    /\ leetVariants(ToLower(password)) \cap v.dict.set # {}
    /\ Len(out.val) = 1
    /\ out.val[1].Rule = "common_password"

\* the longest run of equal consecutive elements of s (0 for the empty s)
LongestRun(s) ==
    SetMax({0} \cup { k \in 1..Len(s) :
                        \E i \in 1..(Len(s) - k + 1) :
                            \A j \in i..(i + k - 1) : s[j] = s[i] })

\* C18: for every non-empty lower-cased password, of length 1 and 2 as well,
\* with run the longest run of identical consecutive characters and ratio the
\* number of distinct characters over the length, the repeated-characters
\* detector's factor is (0.4 if run >= 4, 0.6 if run = 3, else 1) times
\* (0.5 if ratio < 0.4, 0.7 if 0.4 <= ratio < 0.6, else 1); it emits one
\* repeated_chars penalty with that factor exactly when the factor is below 1,
\* and the description has one part for each reason that contributed.
C18_RepeatedCharsAllLengths ==
    (out.op = "penaltyRepeatedChars" /\ out.arg # <<>>) =>
        LET lower    == out.arg
            run      == LongestRun(lower)
            distinct == Cardinality(Range(lower))
            low      == 5 * distinct < 2 * Len(lower)
            moderate == ~low /\ 5 * distinct < 3 * Len(lower)
            byRun    == IF run >= 4 THEN 400 ELSE IF run = 3 THEN 600 ELSE 1000
            byRatio  == IF low THEN 500 ELSE IF moderate THEN 700 ELSE 1000
            factor   == (byRun * byRatio) \div 1000
            reasons  == (IF run >= 3 THEN <<"consecutive repeated characters">> ELSE <<>>)
                        \o (IF low THEN <<"low character diversity">>
                            ELSE IF moderate THEN <<"moderate character diversity">>
                            ELSE <<>>)
        IN  IF factor < 1000
            THEN /\ Len(out.val) = 1
                 /\ out.val[1].Rule = "repeated_chars"
                 /\ out.val[1].Factor = factor
                 /\ Len(out.val[1].Desc) = Len(reasons)
                 /\ \A i \in 1..Len(reasons) : out.val[1].Desc[i].text = reasons[i]
            ELSE out.val = <<>>

\* the longest stretch of b that goes up by exactly 1 at every step, or down
\* by exactly 1 at every step (1 for a single byte, 0 for the empty b)
LongestOneWayRun(b) ==
    SetMax({0} \cup { k \in 1..Len(b) :
                        \E i \in 1..(Len(b) - k + 1) : \E d \in {1, -1} :
                            \A j \in i..(i + k - 2) : b[j + 1] - b[j] = d })

\* C19: the run the sequential-characters detector measures is the longest
\* contiguous stretch of the lower-cased password that ascends by exactly 1
\* throughout or descends by exactly 1 throughout, in byte value; a stretch
\* that changes direction is not one run.  The detector emits factor 0.3 when
\* that length is >= 5, 0.5 when it is 4, 0.7 when it is 3, nothing otherwise.
C19_SequentialOneDirection ==
    out.op = "penaltySequentialChars" =>
        LET run == LongestOneWayRun(Bytes(out.arg))
        IN  IF run >= 3
            THEN /\ Len(out.val) = 1
                 /\ out.val[1].Rule = "sequential_chars"
                 /\ out.val[1].Factor = (IF run >= 5 THEN 300 ELSE IF run = 4 THEN 500 ELSE 700)
            ELSE out.val = <<>>

\* the dictionary entries of at least 4 characters that occur in the
\* lower-cased password or in its leet-canonical form
SubstringWords(lower, entries) ==
    { word \in entries :
        /\ Len(word) >= 4
        /\ (Contains(lower, word) \/ Contains(leetNormalize(lower), word)) }

\* C20: the dictionary-substring detector considers the dictionary words of
\* length >= 4 only and picks a longest one that is a contiguous substring of
\* the lower-cased password or of its leet-canonical form; with ratio that
\* word's length over the password's length it emits factor 0.2 when
\* ratio >= 0.8, 0.5 when 0.5 <= ratio < 0.8, 0.7 when 0.3 <= ratio < 0.5, and
\* nothing when ratio < 0.3 or there is no such word, as for the empty
\* password; the factor is the same for every order of the word list.
C20_DictionarySubstring ==
    out.op = "penaltyDictionarySubstring" =>
        LET lower == out.arg
            found == SubstringWords(lower, v.dict.set)
            w     == SetMax({0} \cup { Len(word) : word \in found })
            n     == Len(lower)
            factor == IF 5 * w >= 4 * n THEN 200
                      ELSE IF 2 * w >= n THEN 500
                      ELSE IF 10 * w >= 3 * n THEN 700 ELSE 1000
        IN  IF found # {} /\ factor < 1000
            THEN /\ Len(out.val) = 1
                 /\ out.val[1].Rule = "dictionary_substring"
                 /\ out.val[1].Factor = factor
                 /\ out.val[1].Desc[1].word \in found
                 /\ Len(out.val[1].Desc[1].word) = w
            ELSE out.val = <<>>

(***************************************************************************)
(* The leet functions called directly.                                     *)
(***************************************************************************)
\* '@', '1', '9', 's'
LeetAlphabet == {64, 49, 57, 115}

\* every string over LeetAlphabet, and "p@ss1"
LeetInputs == SeqsUpTo(LeetAlphabet, MaxLeetLen) \cup { <<112, 64, 115, 115, 49>> }

\* leetNormalize(s)
CallLeetNormalize ==
    /\ out.op = "none"
    /\ out' = [op |-> "leetNormalize", arg |-> password, val |-> leetNormalize(password)]
    /\ UNCHANGED <<args, v, password, ret, detail, first, gen>>

\* leetNormalize(leetNormalize(s))
CallLeetNormalizeAgain ==
    /\ out.op = "leetNormalize"
    /\ out' = [op |-> "leetNormalize", arg |-> out.val, val |-> leetNormalize(out.val)]
    /\ UNCHANGED <<args, v, password, ret, detail, first, gen>>

\* leetVariants(s)
CallLeetVariants ==
    /\ out.op = "none"
    /\ \E q \in leetVariantsOut(password) :
          out' = [op |-> "leetVariants", arg |-> password, val |-> q]
    /\ UNCHANGED <<args, v, password, ret, detail, first, gen>>

InitLeet ==
    /\ args = Args(1, 1, FALSE, FALSE, FALSE, FALSE, 0, <<>>)
    /\ password \in LeetInputs
    /\ v = NoValidator
    /\ ret = NoReturn
    /\ detail = NoDetail
    /\ first = NoReturn
    /\ gen = GenIdle
    /\ out = NoOut

NextLeet == CallLeetNormalize \/ CallLeetNormalizeAgain \/ CallLeetVariants

SpecLeet == InitLeet /\ [][NextLeet]_vars

\* the positions of s whose character has more than one letter listed
AmbiguousPositions(s) ==
    { i \in 1..Len(s) : s[i] \in DOMAIN leetMap /\ Len(leetMap[s[i]]) > 1 }

\* the first two of them, left to right
FirstTwoAmbiguous(s) ==
    { i \in AmbiguousPositions(s) : Cardinality({ j \in AmbiguousPositions(s) : j < i }) < 2 }

\* the canonical form of s with the letters c[i] at the positions i of c
Layered(s, c) == [i \in 1..Len(s) |-> IF i \in DOMAIN c THEN c[i] ELSE leetNormalize(s)[i]]

\* C13: leetVariants(s) has no duplicates and holds leetNormalize(s); each
\* element is leetNormalize(s) but for the first two ambiguous positions of s,
\* which carry one of the letters listed for the character there; every
\* combination of those letters is present; there are at most 4 elements.
\* leetVariants("p@ss1") holds "passi" and "passl".
C13_LeetVariants ==
    out.op = "leetVariants" =>
        LET s       == out.arg
            two     == FirstTwoAmbiguous(s)
            letters == UNION { Range(leetMap[s[i]]) : i \in two }
            choices == { c \in [two -> letters] : \A i \in two : c[i] \in Range(leetMap[s[i]]) }
        IN  /\ \A j, k \in 1..Len(out.val) : j # k => out.val[j] # out.val[k]
            /\ leetNormalize(s) \in Range(out.val)
            /\ Range(out.val) = { Layered(s, c) : c \in choices }
            /\ Len(out.val) <= 4
            /\ s = <<112, 64, 115, 115, 49>> =>
                  /\ <<112, 97, 115, 115, 105>> \in Range(out.val)
                  /\ <<112, 97, 115, 115, 108>> \in Range(out.val)

\* C13 witness: a string with three ambiguous characters gave four variants,
\* all with the first letter at the third ambiguous position
C13_Witness ==
    /\ out.op = "leetVariants"
    /\ Cardinality(AmbiguousPositions(out.arg)) >= 3
    /\ Len(out.val) = 4

\* C14: leetNormalize(s) has the length of s, the first letter listed at every
\* mapped character and the character itself everywhere else; a string with no
\* mapped character comes back unchanged, and normalizing the result again
\* changes nothing.  Every string is normalized.
C14_LeetNormalizeIdempotent ==
    /\ out.op = "none" => ENABLED CallLeetNormalize
    /\ out.op = "leetNormalize" =>
          LET s == out.arg IN
          /\ Len(out.val) = Len(s)
          /\ \A i \in 1..Len(s) :
                out.val[i] = (IF s[i] \in DOMAIN leetMap THEN Head(leetMap[s[i]]) ELSE s[i])
          /\ (\A i \in 1..Len(s) : s[i] \notin DOMAIN leetMap) => out.val = s
          /\ s # password => out.val = s

\* C14 witness: the canonical form of a string with an ambiguous character,
\* changed by the first call, was normalized a second time
C14_Witness ==
    /\ out.op = "leetNormalize"
    /\ out.arg # password
    /\ AmbiguousPositions(password) # {}
    /\ out.val = out.arg

(***************************************************************************)
(* loadDictionary and contains called directly.                            *)
(***************************************************************************)
\* "Ab", " ab ", "", "b", " ", "\tB", "a b"
DictLines ==
    { <<65, 98>>, <<32, 97, 98, 32>>, <<>>, <<98>>, <<32>>, <<9, 66>>, <<97, 32, 98>> }

\* strings.Split(data, "\n") of a text: one line or more
DictTexts == SeqsUpTo(DictLines, MaxDictLines) \ { <<>> }

\* "ab", "AB", "Ab", "b", "B", " ab ", "", "a b", "c"
DictQueries ==
    { <<97, 98>>, <<65, 66>>, <<65, 98>>, <<98>>, <<66>>, <<32, 97, 98, 32>>, <<>>,
      <<97, 32, 98>>, <<99>> }

\* d := loadDictionary(data)
CallLoadDictionary ==
    /\ out.op = "none"
    /\ out' = [op |-> "loadDictionary", arg |-> args.customDict,
               val |-> loadDictionary(args.customDict)]
    /\ UNCHANGED <<args, v, password, ret, detail, first, gen>>

\* d.contains(word)
CallContains ==
    /\ out.op = "loadDictionary"
    /\ out' = [op |-> "contains", arg |-> out.val, val |-> contains(out.val, password)]
    /\ UNCHANGED <<args, v, password, ret, detail, first, gen>>

InitDict ==
    /\ args \in { Args(1, 1, FALSE, FALSE, FALSE, FALSE, 0, d) : d \in DictTexts }
    /\ password \in DictQueries
    /\ v = NoValidator
    /\ ret = NoReturn
    /\ detail = NoDetail
    /\ first = NoReturn
    /\ gen = GenIdle
    /\ out = NoOut

NextDict == CallLoadDictionary \/ CallContains

SpecDict == InitDict /\ [][NextDict]_vars

\* w is line without the white space at its two ends
IsTrimOf(w, line) ==
    \E i \in 1..(Len(line) + 1), j \in 0..Len(line) :
        /\ w = SubSeq(line, i, j)
        /\ \A k \in 1..Len(line) : (k < i \/ k > j) => IsSpace(line[k])
        /\ w # <<>> => (~IsSpace(w[1]) /\ ~IsSpace(w[Len(w)]))

\* the lower-cased, trimmed, non-empty lines of a text
EntriesOf(lines) ==
    { w \in UNION { { SubSeq(l, i, j) : i \in 1..Len(l), j \in 1..Len(l) }
                    : l \in { ToLower(lines[k]) : k \in 1..Len(lines) } } :
        /\ w # <<>>
        /\ \E k \in 1..Len(lines) : IsTrimOf(w, ToLower(lines[k])) }

\* C16 (as claimed): the dictionary holds the lower-cased, trimmed, non-empty
\* lines of its text, and contains(word) is true exactly when the lower-cased
\* word is one of them.
C16_ContainsCaseInsensitive ==
    /\ out.op = "loadDictionary" =>
          (out.val.set = EntriesOf(out.arg) /\ Range(out.val.words) = EntriesOf(out.arg))
    /\ out.op = "contains" =>
          (out.val <=> ToLower(password) \in EntriesOf(args.customDict))

\* C16 (amended): the dictionary holds the lower-cased, trimmed, non-empty
\* lines of its text, and contains(word) is true exactly when the word as
\* passed, with its case, is one of them.
C16_ContainsExact ==
    /\ out.op = "loadDictionary" =>
          (out.val.set = EntriesOf(out.arg) /\ Range(out.val.words) = EntriesOf(out.arg))
    /\ out.op = "contains" =>
          (out.val <=> password \in EntriesOf(args.customDict))

\* C16 witness: contains said no to a word in upper case whose lower-cased
\* form is an entry, the entry coming from a line with white space around it
C16_Witness ==
    /\ out.op = "contains"
    /\ ~out.val
    /\ password # ToLower(password)
    /\ ToLower(password) \in EntriesOf(args.customDict)
    /\ ToLower(password) \notin Range(args.customDict)

(***************************************************************************)
(* entropyToScore called directly, on entropies in millionths of a bit.    *)
(***************************************************************************)
Bits(n) == n * 1000000

\* entropies below and at 0, each side of every step of the curve, the bit
\* counts the comment of entropyToScore and its test name, and beyond
EntropyInputs ==
    { -Bits(1), -1, 0, 1 }
    \cup { ScoreThreshold[n] - 1 : n \in 1..Len(ScoreThreshold) }
    \cup { ScoreThreshold[n] : n \in 1..Len(ScoreThreshold) }
    \cup { Bits(20), Bits(40), Bits(60), Bits(80), Bits(100), Bits(128), Bits(1000) }

\* entropyToScore(e1) and entropyToScore(e2)
CallEntropyToScore ==
    /\ out.op = "none"
    /\ \E e1, e2 \in EntropyInputs :
          out' = [op |-> "entropyToScore", arg |-> <<e1, e2>>,
                  val |-> <<entropyToScore(e1), entropyToScore(e2)>>]
    /\ UNCHANGED <<args, v, password, ret, detail, first, gen>>

InitScore ==
    /\ args = Args(1, 1, FALSE, FALSE, FALSE, FALSE, 0, <<>>)
    /\ password = <<>>
    /\ v = NoValidator
    /\ ret = NoReturn
    /\ detail = NoDetail
    /\ first = NoReturn
    /\ gen = GenIdle
    /\ out = NoOut

NextScore == CallEntropyToScore

SpecScore == InitScore /\ [][NextScore]_vars

\* the values the comment of entropyToScore gives for the curve
CurveComment ==
    (Bits(20) :> 39) @@ (Bits(40) :> 63) @@ (Bits(60) :> 78) @@ (Bits(80) :> 86)
    @@ (Bits(100) :> 92) @@ (Bits(128) :> 96)

\* C17: entropyToScore is an integer in 0..100, non-decreasing in the entropy,
\* 0 for every entropy <= 0, and in 93..100 at 128 bits; at the bit counts its
\* comment lists it is the rounded value of the curve given there.
C17_EntropyToScoreMonotone ==
    out.op = "entropyToScore" =>
        LET e1 == out.arg[1]
            e2 == out.arg[2]
            s1 == out.val[1]
            s2 == out.val[2]
        IN  /\ s1 \in 0..100
            /\ e1 <= e2 => s1 <= s2
            /\ e1 <= 0 => s1 = 0
            /\ e1 = Bits(128) => s1 \in 93..100
            /\ e1 \in DOMAIN CurveComment => s1 = CurveComment[e1]

\* C17 witness: two entropies a millionth of a bit apart, on the two sides of
\* a step of the curve, gave two consecutive scores
C17_Witness ==
    /\ out.op = "entropyToScore"
    /\ out.arg[2] = out.arg[1] + 1
    /\ out.arg[1] > 0
    /\ out.val[2] = out.val[1] + 1

(***************************************************************************)
(* charClasses and effectivePoolSize called on the same password.          *)
(***************************************************************************)
ClassInputs == SeqsUpTo(MixedAlphabet, MaxMixedLen)

\* hasLower, hasUpper, hasNumber, hasSymbol := charClasses(password)
CallCharClasses ==
    /\ out.op = "none"
    /\ out' = [op |-> "charClasses", arg |-> password, val |-> charClasses(password)]
    /\ UNCHANGED <<args, v, password, ret, detail, first, gen>>

\* poolSize := effectivePoolSize(password), after charClasses(password)
CallEffectivePoolSize ==
    /\ out.op = "charClasses"
    /\ out' = [op |-> "effectivePoolSize", arg |-> password,
               val |-> [classes |-> out.val, pool |-> effectivePoolSize(password)]]
    /\ UNCHANGED <<args, v, password, ret, detail, first, gen>>

InitClasses ==
    /\ args = Args(1, 1, FALSE, FALSE, FALSE, FALSE, 0, <<>>)
    /\ password \in ClassInputs
    /\ v = NoValidator
    /\ ret = NoReturn
    /\ detail = NoDetail
    /\ first = NoReturn
    /\ gen = GenIdle
    /\ out = NoOut

NextClasses == CallCharClasses \/ CallEffectivePoolSize

SpecClasses == InitClasses /\ [][NextClasses]_vars

\* C22: the classes the rule checks see and the classes the pool size counts
\* are the same for every password: the pool size is 26 for lowercase, 26 for
\* uppercase, 10 for digits and 33 for symbols, each added exactly when the
\* password satisfies the rule that requires that class.
C22_ClassesAgree ==
    out.op = "effectivePoolSize" =>
        LET cc == out.val.classes
        IN  out.val.pool = (IF cc.lower THEN 26 ELSE 0) + (IF cc.upper THEN 26 ELSE 0)
                           + (IF cc.number THEN 10 ELSE 0) + (IF cc.symbol THEN 33 ELSE 0)

(***************************************************************************)
(* The constructor on arguments in and out of range.                       *)
(***************************************************************************)
NewInputs ==
    { Args(min, max, lo, up, nu, sy, cx, d) :
        min \in -2..MaxArgLen, max \in -2..(MaxArgLen + 1), lo \in BOOLEAN, up \in BOOLEAN,
        nu \in BOOLEAN, sy \in BOOLEAN, cx \in {-1, 0, 1, 50, 99, 100, 101},
        d \in {<<>>, SampleDict} }

InitNew ==
    /\ args \in NewInputs
    /\ password = <<>>
    /\ v = NoValidator
    /\ ret = NoReturn
    /\ detail = NoDetail
    /\ first = NoReturn
    /\ gen = GenIdle
    /\ out = NoOut

NextNew == New

SpecNew == InitNew /\ [][NextNew]_vars

\* C9: the constructed validator has 1 <= MinLength <= MaxLength and
\* 0 <= Complexity <= 100; a min below 1 becomes 1, then a max below that min
\* becomes the min, the complexity goes to the nearer of 0 and 100; values in
\* range and the four flags are stored as passed; every input constructs.
C9_ConstructorClamps ==
    /\ ~Constructed => ENABLED New
    /\ Constructed =>
          LET min == IF args.min < 1 THEN 1 ELSE args.min IN
          /\ 1 <= v.MinLength /\ v.MinLength <= v.MaxLength
          /\ 0 <= v.Complexity /\ v.Complexity <= 100
          /\ v.MinLength = min
          /\ v.MaxLength = Max2(args.max, min)
          /\ v.Complexity = Max2(0, Min2(100, args.complexity))
          /\ (args.min >= 1 /\ args.max >= args.min) =>
                (v.MinLength = args.min /\ v.MaxLength = args.max)
          /\ args.complexity \in 0..100 => v.Complexity = args.complexity
          /\ v.RequireLower = args.lower /\ v.RequireUpper = args.upper
          /\ v.RequireNumbers = args.numbers /\ v.RequireSymbols = args.symbols

\* C9 witness: a validator constructed from a min below 1, a max between that
\* min and 1, and a complexity above 100
C9_Witness ==
    /\ Constructed
    /\ args.min < 0 /\ args.max = 0 /\ args.complexity > 100
    /\ v.MinLength = 1 /\ v.MaxLength = 1 /\ v.Complexity = 100

(***************************************************************************)
(* Generate.                                                               *)
(***************************************************************************)
\* every class mix and length range with threshold 0; one validator whose
\* candidates pass or fail by their length; one whose candidates all fail
GenInputs ==
    { Args(min, max, cl[1], cl[2], cl[3], cl[4], -5, <<>>) :
        min \in {0, 2}, max \in {1, MaxGenLen},
        cl \in { <<FALSE, FALSE, FALSE, FALSE>>, <<TRUE, FALSE, FALSE, FALSE>>,
                 <<TRUE, TRUE, FALSE, FALSE>>, <<TRUE, TRUE, TRUE, TRUE>> } }
    \cup { Args(2, MaxGenLen, TRUE, TRUE, FALSE, FALSE, 20, <<>>),
           Args(0, 1, TRUE, FALSE, FALSE, FALSE, 120, <<>>) }

\* pwd, err := v.Generate(): entry
GenerateCall ==
    /\ Constructed
    /\ gen.pc = "idle"
    /\ gen' = [gen EXCEPT !.pc = "loop", !.i = 0]
    /\ UNCHANGED <<args, v, password, ret, detail, first, out>>

\* GenerateCandidate with the loop bound i <= maxAttempts
GenerateCandidateOneMore ==
    /\ gen.pc = "loop"
    /\ gen.i <= maxAttempts
    /\ \E c \in generateCandidate(v) :
          gen' = [gen EXCEPT !.pc = IF c.fault THEN "panic" ELSE "check", !.cand = c]
    /\ UNCHANGED <<args, v, password, ret, detail, first, out>>

\* pwd := v.generateCandidate(), for i < maxAttempts
GenerateCandidate ==
    /\ gen.pc = "loop"
    /\ gen.i < maxAttempts
    /\ \E c \in generateCandidate(v) :
          gen' = [gen EXCEPT !.pc = IF c.fault THEN "panic" ELSE "check", !.cand = c]
    /\ UNCHANGED <<args, v, password, ret, detail, first, out>>

\* GenerateCheck returning the candidate whatever Validate says of it
GenerateCheckIgnoresPass ==
    /\ gen.pc = "check"
    /\ \E r \in ValidateResults(v, gen.cand.pwd) :
          gen' = [gen EXCEPT !.pc = "returned", !.pwd = gen.cand.pwd]
    /\ UNCHANGED <<args, v, password, ret, detail, first, out>>

\* if pass, _ := v.Validate(pwd); pass { return pwd, nil }; else i++
GenerateCheck ==
    /\ gen.pc = "check"
    /\ \E r \in ValidateResults(v, gen.cand.pwd) :
          gen' = IF r.pass
                 THEN [gen EXCEPT !.pc = "returned", !.pwd = gen.cand.pwd]
                 ELSE [gen EXCEPT !.pc = "loop", !.i = gen.i + 1, !.cand = NoCandidate]
    /\ UNCHANGED <<args, v, password, ret, detail, first, out>>

\* return "", fmt.Errorf(...), once i reaches maxAttempts
GenerateExhausted ==
    /\ gen.pc = "loop"
    /\ ~(gen.i < maxAttempts)
    /\ gen' = [gen EXCEPT !.pc = "failed", !.pwd = <<>>]
    /\ UNCHANGED <<args, v, password, ret, detail, first, out>>

InitGen ==
    /\ args \in GenInputs
    /\ password = <<>>
    /\ v = NoValidator
    /\ ret = NoReturn
    /\ detail = NoDetail
    /\ first = NoReturn
    /\ gen = GenIdle
    /\ out = NoOut

NextGen == New \/ GenerateCall \/ GenerateCandidate \/ GenerateCheck \/ GenerateExhausted

SpecGen == InitGen /\ [][NextGen]_vars

\* the validators of the liveness specification: one whose every candidate
\* passes, one whose candidates pass or fail, one whose candidates all fail,
\* one whose candidates cannot be built
GenFairInputs ==
    { Args(1, 2, FALSE, FALSE, FALSE, FALSE, 0, <<>>),
      Args(2, 3, TRUE, TRUE, FALSE, FALSE, 20, <<>>),
      Args(1, 1, TRUE, FALSE, FALSE, FALSE, 100, <<>>),
      Args(1, 1, TRUE, TRUE, FALSE, FALSE, 0, <<>>) }

InitGenFair ==
    /\ args \in GenFairInputs
    /\ password = <<>>
    /\ v = NoValidator
    /\ ret = NoReturn
    /\ detail = NoDetail
    /\ first = NoReturn
    /\ gen = GenIdle
    /\ out = NoOut

\* the liveness specification: a call of Generate that has entered its loop
\* keeps running.  The loop is sequential code with no blocking call, so each
\* of its steps (build a candidate, validate it, leave at i = maxAttempts) is
\* taken once control is there: weak fairness of the three steps.  For the
\* two steps that draw from a set of outcomes the enabling condition is
\* written out: GenerateCandidate is enabled exactly at pc = "loop" with
\* i < maxAttempts, GenerateCheck exactly at pc = "check".
SpecGenFair ==
    /\ InitGenFair
    /\ [][NextGen]_vars
    /\ WF_vars(GenerateExhausted)
    /\ []<>(~(gen.pc = "loop" /\ gen.i < maxAttempts)) \/ []<><<GenerateCandidate>>_vars
    /\ []<>(gen.pc # "check") \/ []<><<GenerateCheck>>_vars

(***************************************************************************)
(* Properties of Generate (SpecGen, SpecGenFair).                          *)
(***************************************************************************)
HasClass(s, Class(_)) == \E i \in 1..Len(s) : Class(s[i])

\* C6: a password Generate returns passes Validate on the same validator: its
\* length is within MinLength..MaxLength, it has a character of every
\* required class, and its score is at least the threshold.
C6_GeneratedPasswordValidates ==
    gen.pc = "returned" =>
        /\ \A r \in ValidateResults(v, gen.pwd) : r.pass /\ r.score >= v.Complexity
        /\ Len(Bytes(gen.pwd)) \in v.MinLength..v.MaxLength
        /\ v.RequireLower => HasClass(gen.pwd, IsLower)
        /\ v.RequireUpper => HasClass(gen.pwd, IsUpper)
        /\ v.RequireNumbers => HasClass(gen.pwd, IsDigit)
        /\ v.RequireSymbols => HasClass(gen.pwd, IsPunctOrSymbol)

\* C6 witness: Generate returned a password under a positive threshold after
\* an earlier candidate of the same call was rejected
C6_Witness ==
    /\ gen.pc = "returned"
    /\ gen.i > 0
    /\ v.Complexity > 0
    /\ v.RequireLower /\ v.RequireUpper

\* C7 (as claimed): building a candidate never faults, whatever the validator,
\* and each required class has its mandatory character at a position of the
\* candidate that no other required class was given.
C7_CandidateNeverFaults ==
    /\ gen.pc # "panic"
    /\ gen.pc = "check" =>
          LET c        == gen.cand
              required == requiredOf(v)
          IN  /\ Len(c.reqPos) = Len(required)
              /\ \A j, k \in 1..Len(c.reqPos) : j # k => c.reqPos[j] # c.reqPos[k]
              /\ \A k \in 1..Len(c.reqPos) :
                    /\ c.reqPos[k] \in 0..(Len(c.pwd) - 1)
                    /\ c.pwd[c.reqPos[k] + 1] \in Range(required[k])

GenDone == gen.pc \in {"returned", "failed", "panic"}

\* C8: Generate terminates; it builds at most 1000 candidates, one per round
\* of the loop, each one validated before the next is built; the first
\* candidate that passes is returned with no further step; the exhaustion
\* error, with an empty password, is returned exactly when 1000 candidates
\* have failed.
C8_GenerateBounded ==
    /\ [](/\ gen.i \in 0..maxAttempts
          /\ gen.pc = "check" => gen.i < maxAttempts
          /\ gen.pc = "returned" =>
                (gen.pwd = gen.cand.pwd /\ gen.i < maxAttempts /\ ~ENABLED NextGen)
          /\ gen.pc = "failed" => (gen.i = maxAttempts /\ gen.pwd = <<>>)
          /\ (gen.pc = "loop" /\ gen.i = maxAttempts) => ~ENABLED GenerateCandidate)
    /\ [][ /\ gen'.i # gen.i =>
                /\ gen.pc = "check" /\ gen'.pc = "loop" /\ gen'.i = gen.i + 1
                /\ \E r \in ValidateResults(v, gen.cand.pwd) : ~r.pass
           /\ gen'.pc = "failed" => (gen.pc = "loop" /\ gen.i = maxAttempts)
           /\ gen'.pc = "returned" =>
                (gen.pc = "check" /\ \E r \in ValidateResults(v, gen.cand.pwd) : r.pass)
         ]_vars
    /\ (gen.pc = "loop") ~> GenDone

\* C8 witness: 1000 candidates failed and Generate returned the error
C8_Witness == gen.pc = "failed" /\ gen.i = maxAttempts /\ gen.pwd = <<>>

=============================================================================
